---- MODULE Spec2Model ----
(***************************************************************************)
(* Session / auth-token lifecycle and authenticated request pipeline of    *)
(* the hostel-booking frontend: AuthProvider (contexts/AuthContext) and    *)
(* the axios instance `api` with its request and response interceptors.    *)
(*                                                                         *)
(* Strings are modelled as texts: finite sequences of lexemes.  The empty  *)
(* JavaScript string is the empty text.  JavaScript values are tagged      *)
(* records, so that truthiness, JSON.stringify and JSON.parse are computed *)
(* the way the runtime computes them.                                      *)
(***************************************************************************)
EXTENDS Integers, Sequences, FiniteSets, TLC

VARIABLES
    localStorage,   \* origin-scoped key-value store: a partial map key -> text
    user,           \* AuthProvider state `user`
    token,          \* AuthProvider state `token`
    isLoading,      \* AuthProvider state `isLoading`
    href,           \* window.location: the path of the current document
    unloading,      \* an assignment to window.location.href started a navigation
    requests,       \* the backend calls of the current document in flight
    ev,             \* history: the last step taken, with what it saw before
    cleared,        \* history: what emptied the store since the last login
    view            \* the page the Router renders: its React state, and the
                    \* closures of its calls awaiting their response

vars == <<localStorage, user, token, isLoading, href, unloading, requests, ev,
          cleared, view>>

----------------------------------------------------------------------------
(* Bounds *)

MaxRequests == 2

----------------------------------------------------------------------------
(* JavaScript values *)

null == [t |-> "null"]
undefined == [t |-> "undefined"]
String(s) == [t |-> "string", s |-> s]
Number(n) == [t |-> "number", n |-> n]
Object(o) == [t |-> "object", o |-> o]
Array(a) == [t |-> "array", a |-> a]

\* ToBoolean, as applied by `if (x)` and `a && b`
Truthy(v) ==
    CASE v.t = "null" -> FALSE
      [] v.t = "undefined" -> FALSE
      [] v.t = "string" -> v.s /= <<>>
      [] v.t = "number" -> v.n /= 0
      [] OTHER -> TRUE

----------------------------------------------------------------------------
(* JSON *)

Q == "\""
Digits == 0..9
UserKeys == <<"id", "username", "email", "role">>

IsNumberLexeme(x) == \E n \in Digits : ToString(n) = x
NumberOf(x) == CHOOSE n \in Digits : ToString(n) = x

StringifyScalar(v) ==
    CASE v.t = "null" -> <<"null">>
      [] v.t = "number" -> <<ToString(v.n)>>
      [] v.t = "string" -> <<Q>> \o v.s \o <<Q>>

RECURSIVE StringifyMembers(_, _)
StringifyMembers(o, keys) ==
    IF keys = <<>> THEN <<>>
    ELSE <<Q, Head(keys), Q, ":">> \o StringifyScalar(o[Head(keys)])
         \o (IF Tail(keys) = <<>> THEN <<>> ELSE <<",">>)
         \o StringifyMembers(o, Tail(keys))

\* JSON.stringify
JSONstringify(v) ==
    IF v.t = "object"
    THEN <<"{">> \o StringifyMembers(v.o, SelectSeq(UserKeys, LAMBDA k : k \in DOMAIN v.o))
         \o <<"}">>
    ELSE StringifyScalar(v)

SyntaxError == [ok |-> FALSE, value |-> undefined, next |-> 0]

ParseScalar(t, i) ==
    IF i > Len(t) THEN SyntaxError
    ELSE IF t[i] = "null" THEN [ok |-> TRUE, value |-> null, next |-> i + 1]
    ELSE IF IsNumberLexeme(t[i])
         THEN [ok |-> TRUE, value |-> Number(NumberOf(t[i])), next |-> i + 1]
    ELSE IF t[i] = Q /\ i + 1 <= Len(t) /\ t[i + 1] = Q
         THEN [ok |-> TRUE, value |-> String(<<>>), next |-> i + 2]
    ELSE IF t[i] = Q /\ i + 2 <= Len(t) /\ t[i + 2] = Q
         THEN [ok |-> TRUE, value |-> String(<<t[i + 1]>>), next |-> i + 3]
    ELSE SyntaxError

RECURSIVE ParseMembers(_, _, _)
ParseMembers(t, i, acc) ==
    LET key == ParseScalar(t, i) IN
    IF ~(key.ok /\ key.value.t = "string" /\ key.value.s /= <<>>) THEN SyntaxError
    ELSE IF ~(key.next <= Len(t) /\ t[key.next] = ":") THEN SyntaxError
    ELSE LET val == ParseScalar(t, key.next + 1)
             k == key.value.s[1]
         IN IF ~val.ok \/ val.next > Len(t) THEN SyntaxError
            ELSE LET acc2 == [x \in DOMAIN acc \cup {k} |->
                                 IF x = k THEN val.value ELSE acc[x]]
                 IN IF t[val.next] = "," THEN ParseMembers(t, val.next + 1, acc2)
                    ELSE IF t[val.next] = "}"
                         THEN [ok |-> TRUE, value |-> Object(acc2), next |-> val.next + 1]
                    ELSE SyntaxError

\* JSON.parse: the parsed value, or ok = FALSE where it throws SyntaxError
JSONparse(t) ==
    LET r == IF t /= <<>> /\ t[1] = "{"
             THEN IF Len(t) >= 2 /\ t[2] = "}"
                  THEN [ok |-> TRUE, value |-> Object(<<>>), next |-> 3]
                  ELSE ParseMembers(t, 2, <<>>)
             ELSE ParseScalar(t, 1)
    IN IF r.ok /\ r.next = Len(t) + 1 THEN r ELSE SyntaxError

----------------------------------------------------------------------------
(* localStorage (Web Storage): a partial map from key to text *)

getItem(s, k) == IF k \in DOMAIN s THEN String(s[k]) ELSE null
setItem(s, k, text) == [x \in DOMAIN s \cup {k} |-> IF x = k THEN text ELSE s[x]]
removeItem(s, k) == [x \in DOMAIN s \ {k} |-> s[x]]

Keys == {"user", "access_token", "refresh_token"}

----------------------------------------------------------------------------
(* Inputs *)

\* interface User; the provider registration page builds its user with id 0
Users ==
    { Object([id |-> Number(1), username |-> String(<<"ama">>),
              email |-> String(<<"ama@st.edu">>), role |-> String(<<"student">>)]),
      Object([id |-> Number(0), username |-> String(<<"kofi">>),
              email |-> String(<<"kofi@hostel.com">>), role |-> String(<<"provider">>)]) }

AccessTokens == {String(<<"accessA">>), String(<<"accessB">>)}
RefreshTokens == {String(<<"refreshA">>), String(<<"refreshB">>)}

\* what a previous document, or anything else of the origin, may have left
\* under the key `user`: a serialized user, the JSON literal null, a
\* truncated object, an unserialized object, the empty string
MalformedUserTexts == { <<"{", Q, "id", Q, ":">>, <<"[object Object]">> }
PersistedTokens == {String(<<"accessA">>)}
PersistedUserTexts ==
    {JSONstringify(u) : u \in Users} \cup {<<"null">>, <<>>} \cup MalformedUserTexts
PersistedAccessTexts == {a.s : a \in PersistedTokens} \cup {<<>>}
PersistedRefreshTexts == {<<"refreshA">>}

PersistedStores ==
    { s \in UNION { [D -> PersistedUserTexts \cup PersistedAccessTexts
                                \cup PersistedRefreshTexts] : D \in SUBSET Keys } :
        /\ "user" \in DOMAIN s => s["user"] \in PersistedUserTexts
        /\ "access_token" \in DOMAIN s => s["access_token"] \in PersistedAccessTexts
        /\ "refresh_token" \in DOMAIN s => s["refresh_token"] \in PersistedRefreshTexts }

\* routes of App
Paths == {"/", "/login", "/student/dashboard"}

\* urls the views pass to `api`
Urls == { <<"/register/", "student/">>, <<"/login/">>, <<"/bookings/my/">> }

HTTP_UNAUTHORIZED == 401
Statuses == {200, HTTP_UNAUTHORIZED, 500}
Response(status) == [t |-> "response", status |-> status]
\* a completed exchange, or no response at all (network failure)
Outcomes == {Response(st) : st \in Statuses} \cup {undefined}

----------------------------------------------------------------------------
(* AuthProvider *)

\* login that stores the user object without JSON.stringify
loginStore_unserialized(s, userData, accessToken, refreshToken) ==
    setItem(setItem(setItem(s, "user", <<"[object Object]">>),
                    "access_token", accessToken.s),
            "refresh_token", refreshToken.s)

\* login that does not store the refresh token
loginStore_noRefresh(s, userData, accessToken, refreshToken) ==
    setItem(setItem(s, "user", JSONstringify(userData)), "access_token", accessToken.s)

\* localStorage after the three setItem calls of login
loginStore(s, userData, accessToken, refreshToken) ==
    setItem(setItem(setItem(s, "user", JSONstringify(userData)),
                    "access_token", accessToken.s),
            "refresh_token", refreshToken.s)

\* a clear that leaves the access token behind
clearStore_keepsAccess(s) == removeItem(removeItem(s, "user"), "refresh_token")

\* a clear that leaves the refresh token behind
clearStore_keepsRefresh(s) == removeItem(removeItem(s, "user"), "access_token")

\* localStorage after the three removeItem calls of logout, of the catch
\* block of the restoration effect and of the response interceptor
clearStore(s) ==
    removeItem(removeItem(removeItem(s, "user"), "access_token"), "refresh_token")

\* a restoration that reads the token from the wrong key
restoreSession_wrongKey(s) ==
    LET savedUser == getItem(s, "user")
        savedToken == getItem(s, "refresh_token")
    IN IF Truthy(savedUser) /\ Truthy(savedToken)
       THEN LET parsed == JSONparse(savedUser.s)
            IN IF parsed.ok
               THEN [user |-> parsed.value, token |-> savedToken, store |-> s]
               ELSE [user |-> null, token |-> null, store |-> clearStore(s)]
       ELSE [user |-> null, token |-> null, store |-> s]

\* the effect run once after AuthProvider mounts: what it sets
restoreSession(s) ==
    LET savedUser == getItem(s, "user")
        savedToken == getItem(s, "access_token")
    IN IF Truthy(savedUser) /\ Truthy(savedToken)
       THEN LET parsed == JSONparse(savedUser.s)
            IN IF parsed.ok
               THEN [user |-> parsed.value, token |-> savedToken, store |-> s]
               ELSE [user |-> null, token |-> null, store |-> clearStore(s)]
       ELSE [user |-> null, token |-> null, store |-> s]

\* what a later step keeps of the step before it
Brief(e) ==
    IF e.op = "login" THEN e
    ELSE IF e.op = "logout" THEN [op |-> e.op, from |-> e.from]
    ELSE [op |-> e.op]

\* Anonymous or Authenticated, by the user the context reports
SessionState == IF user = null THEN "Anonymous" ELSE "Authenticated"

\* a restoration that ends the loading state only where it restored a session
Restore_staysLoading ==
    /\ isLoading
    /\ LET r == restoreSession(localStorage)
       IN /\ user' = r.user
          /\ token' = r.token
          /\ localStorage' = r.store
          /\ isLoading' = (r.store /= localStorage)
    /\ ev' = [op |-> "restore", before |-> localStorage,
              after |-> IF ev.op = "reload" THEN ev.after ELSE [op |-> "start"]]
    /\ UNCHANGED <<href, unloading, requests, cleared>>

Restore ==
    /\ isLoading
    /\ LET r == restoreSession(localStorage)
       IN /\ user' = r.user
          /\ token' = r.token
          /\ localStorage' = r.store
    /\ isLoading' = FALSE
    /\ ev' = [op |-> "restore", before |-> localStorage,
              after |-> IF ev.op = "reload" THEN ev.after ELSE [op |-> "start"]]
    /\ UNCHANGED <<href, unloading, requests, cleared>>

login(userData, accessToken, refreshToken) ==
    /\ ~isLoading
    /\ user' = userData
    /\ token' = accessToken
    /\ localStorage' = loginStore(localStorage, userData, accessToken, refreshToken)
    /\ ev' = [op |-> "login", userData |-> userData, accessToken |-> accessToken,
              refreshToken |-> refreshToken, from |-> SessionState]
    /\ cleared' = "no"
    /\ UNCHANGED <<isLoading, href, unloading, requests>>

\* a logout that clears the session and stays on the current view
logout_staysOnView ==
    /\ ~isLoading
    /\ user' = null
    /\ token' = null
    /\ localStorage' = clearStore(localStorage)
    /\ ev' = [op |-> "logout", from |-> SessionState, hrefBefore |-> href]
    /\ cleared' = "logout"
    /\ UNCHANGED <<isLoading, requests, href, unloading>>

logout ==
    /\ ~isLoading
    /\ user' = null
    /\ token' = null
    /\ localStorage' = clearStore(localStorage)
    /\ href' = "/"
    /\ unloading' = TRUE
    /\ ev' = [op |-> "logout", from |-> SessionState, hrefBefore |-> href]
    /\ cleared' = "logout"
    /\ UNCHANGED <<isLoading, requests>>

\* a document load: the one started by an assignment to
\* window.location.href, the reload button of a view, the return from the
\* external payment page.  Every in-memory state starts over, the calls of
\* the old document are gone
Reload ==
    /\ ~isLoading
    /\ unloading' = FALSE
    /\ user' = null
    /\ token' = null
    /\ isLoading' = TRUE
    /\ requests' = <<>>
    /\ ev' = [op |-> "reload", after |-> Brief(ev)]
    /\ UNCHANGED <<localStorage, href, cleared>>

\* navigate(path) of a view: a client-side route change
Navigate(path) ==
    /\ ~isLoading
    /\ ~unloading
    /\ href /= path
    /\ href' = path
    /\ ev' = [op |-> "navigate"]
    /\ UNCHANGED <<localStorage, user, token, isLoading, unloading, requests, cleared>>

----------------------------------------------------------------------------
(* api: the axios instance and its interceptors *)

includes(url, fragment) == \E i \in 1..Len(url) : url[i] = fragment

\* axios.create({baseURL, headers}) and the config of api.get(url) / api.post(url)
newConfig(url) ==
    [client |-> "api", url |-> url,
     headers |-> [h \in {"Content-Type"} |-> <<"application/json">>],
     _retry |-> FALSE]

\* a request phase that exempts the registration urls only
requestInterceptor_registerOnly(s, config) ==
    LET isAuthEndpoint == includes(config.url, "/register/")
    IN IF ~isAuthEndpoint
       THEN LET tk == getItem(s, "access_token")
            IN IF Truthy(tk)
               THEN [config EXCEPT !.headers =
                        setItem(@, "Authorization", <<"Bearer ">> \o tk.s)]
               ELSE config
       ELSE config

\* a request phase that sends the bare token, without the Bearer scheme
requestInterceptor_noScheme(s, config) ==
    LET isAuthEndpoint == includes(config.url, "/register/")
                          \/ includes(config.url, "/login/")
    IN IF ~isAuthEndpoint
       THEN LET tk == getItem(s, "access_token")
            IN IF Truthy(tk)
               THEN [config EXCEPT !.headers = setItem(@, "Authorization", tk.s)]
               ELSE config
       ELSE config

\* api.interceptors.request.use(onFulfilled)
requestInterceptor(s, config) ==
    LET isAuthEndpoint == includes(config.url, "/register/")
                          \/ includes(config.url, "/login/")
    IN IF ~isAuthEndpoint
       THEN LET tk == getItem(s, "access_token")
            IN IF Truthy(tk)
               THEN [config EXCEPT !.headers =
                        setItem(@, "Authorization", <<"Bearer ">> \o tk.s)]
               ELSE config
       ELSE config

\* a response phase that handles a 401 again for a request already marked
responseRejected_ignoresRetry(s, error) ==
    LET originalRequest == error.config
    IN IF error.response.t = "response"
          /\ error.response.status = HTTP_UNAUTHORIZED
       THEN LET refreshToken == getItem(s, "refresh_token")
                marked == [originalRequest EXCEPT !._retry = TRUE]
            IN IF Truthy(refreshToken)
               THEN [store |-> clearStore(s), redirect |-> <<"/login">>, calls |-> <<>>,
                     settled |-> [state |-> "rejected",
                                  value |-> [error EXCEPT !.config = marked]]]
               ELSE [store |-> s, redirect |-> <<>>, calls |-> <<>>,
                     settled |-> [state |-> "rejected",
                                  value |-> [error EXCEPT !.config = marked]]]
       ELSE [store |-> s, redirect |-> <<>>, calls |-> <<>>,
             settled |-> [state |-> "rejected", value |-> error]]

\* a response phase that clears and redirects on every 401, refresh token
\* or not
responseRejected_alwaysClears(s, error) ==
    LET originalRequest == error.config
    IN IF error.response.t = "response"
          /\ error.response.status = HTTP_UNAUTHORIZED
          /\ ~originalRequest._retry
       THEN [store |-> clearStore(s), redirect |-> <<"/login">>, calls |-> <<>>,
             settled |-> [state |-> "rejected",
                          value |-> [error EXCEPT !.config._retry = TRUE]]]
       ELSE [store |-> s, redirect |-> <<>>, calls |-> <<>>,
             settled |-> [state |-> "rejected", value |-> error]]

\* a response phase that treats every error status as an authorization
\* failure
responseRejected_anyError(s, error) ==
    LET originalRequest == error.config
    IN IF error.response.t = "response"
          /\ error.response.status >= 400
          /\ ~originalRequest._retry
       THEN LET refreshToken == getItem(s, "refresh_token")
                marked == [originalRequest EXCEPT !._retry = TRUE]
            IN IF Truthy(refreshToken)
               THEN [store |-> clearStore(s), redirect |-> <<"/login">>, calls |-> <<>>,
                     settled |-> [state |-> "rejected",
                                  value |-> [error EXCEPT !.config = marked]]]
               ELSE [store |-> s, redirect |-> <<>>, calls |-> <<>>,
                     settled |-> [state |-> "rejected",
                                  value |-> [error EXCEPT !.config = marked]]]
       ELSE [store |-> s, redirect |-> <<>>, calls |-> <<>>,
             settled |-> [state |-> "rejected", value |-> error]]

\* a response phase that redirects to the landing page
responseRejected_toRoot(s, error) ==
    LET originalRequest == error.config
    IN IF error.response.t = "response"
          /\ error.response.status = HTTP_UNAUTHORIZED
          /\ ~originalRequest._retry
       THEN LET refreshToken == getItem(s, "refresh_token")
                marked == [originalRequest EXCEPT !._retry = TRUE]
            IN IF Truthy(refreshToken)
               THEN [store |-> clearStore(s), redirect |-> <<"/">>, calls |-> <<>>,
                     settled |-> [state |-> "rejected",
                                  value |-> [error EXCEPT !.config = marked]]]
               ELSE [store |-> s, redirect |-> <<>>, calls |-> <<>>,
                     settled |-> [state |-> "rejected",
                                  value |-> [error EXCEPT !.config = marked]]]
       ELSE [store |-> s, redirect |-> <<>>, calls |-> <<>>,
             settled |-> [state |-> "rejected", value |-> error]]

\* a response phase that resends the request once after clearing the store
responseRejected_resends(s, error) ==
    LET originalRequest == error.config
    IN IF error.response.t = "response"
          /\ error.response.status = HTTP_UNAUTHORIZED
          /\ ~originalRequest._retry
       THEN LET refreshToken == getItem(s, "refresh_token")
                marked == [originalRequest EXCEPT !._retry = TRUE]
            IN IF Truthy(refreshToken)
               THEN [store |-> clearStore(s), redirect |-> <<"/login">>,
                     calls |-> <<marked>>,
                     settled |-> [state |-> "rejected",
                                  value |-> [error EXCEPT !.config = marked]]]
               ELSE [store |-> s, redirect |-> <<>>, calls |-> <<>>,
                     settled |-> [state |-> "rejected",
                                  value |-> [error EXCEPT !.config = marked]]]
       ELSE [store |-> s, redirect |-> <<>>, calls |-> <<>>,
             settled |-> [state |-> "rejected", value |-> error]]

\* api.interceptors.response.use(_, onRejected): the store it leaves, the
\* path it assigns to window.location.href (or none), the calls it makes
\* through axios, and how the promise it returns settles
responseRejected(s, error) ==
    LET originalRequest == error.config
    IN IF error.response.t = "response"
          /\ error.response.status = HTTP_UNAUTHORIZED
          /\ ~originalRequest._retry
       THEN LET refreshToken == getItem(s, "refresh_token")
                marked == [originalRequest EXCEPT !._retry = TRUE]
            IN IF Truthy(refreshToken)
               THEN [store |-> clearStore(s), redirect |-> <<"/login">>, calls |-> <<>>,
                     settled |-> [state |-> "rejected",
                                  value |-> [error EXCEPT !.config = marked]]]
               ELSE [store |-> s, redirect |-> <<>>, calls |-> <<>>,
                     settled |-> [state |-> "rejected",
                                  value |-> [error EXCEPT !.config = marked]]]
       ELSE [store |-> s, redirect |-> <<>>, calls |-> <<>>,
             settled |-> [state |-> "rejected", value |-> error]]

\* api.interceptors.response.use(onFulfilled): (response) => response
responseFulfilled(response) == [state |-> "fulfilled", value |-> response]

\* validateStatus of axios: 2xx resolves, anything else rejects
Resolves(outcome) == outcome.t = "response" /\ outcome.status \div 100 = 2

\* the sequence q without its element at position id
Without(q, id) == SubSeq(q, 1, id - 1) \o SubSeq(q, id + 1, Len(q))

\* a view calls api.get / api.post: the request interceptor runs, then the
\* request is transmitted; `requests` holds the configs of the calls in flight
Issue(url) ==
    /\ ~isLoading
    /\ Len(requests) < MaxRequests
    /\ requests' = Append(requests, requestInterceptor(localStorage, newConfig(url)))
    /\ ev' = [op |-> "request", url |-> url, cleared |-> cleared]
    /\ UNCHANGED <<localStorage, user, token, isLoading, href, unloading, cleared>>

\* the backend answers call id (or the network fails): the response
\* interceptor runs and the promise of the call settles, which hands
\* `settled` (fulfilled with the response, or rejected with the error) to
\* the view awaiting it
Respond(id, outcome) ==
    /\ id \in DOMAIN requests
    /\ requests[id].client = "api"
    /\ LET seen == [op |-> "response", outcome |-> outcome, sent |-> requests[id],
                    before |-> localStorage, hrefBefore |-> href,
                    inFlightBefore |-> Len(requests), clearedBefore |-> cleared]
       IN IF Resolves(outcome)
          THEN /\ requests' = Without(requests, id)
               /\ ev' = seen @@ [settled |-> responseFulfilled(outcome),
                                 redirect |-> <<>>]
               /\ UNCHANGED <<localStorage, href, unloading, cleared>>
          ELSE LET error == [config |-> requests[id], response |-> outcome]
                   r == responseRejected(localStorage, error)
               IN /\ requests' = Without(requests, id) \o r.calls
                  /\ localStorage' = r.store
                  /\ href' = IF r.redirect = <<>> THEN href ELSE r.redirect[1]
                  /\ unloading' = (unloading \/ r.redirect /= <<>>)
                  /\ ev' = seen @@ [settled |-> r.settled, redirect |-> r.redirect]
                  /\ cleared' = IF r.redirect /= <<>> \/ r.store /= localStorage
                                THEN "401" ELSE cleared
    /\ UNCHANGED <<user, token, isLoading>>

\* a caller that catches the 401 of call id and passes error.config to
\* `api` again: the response interceptor runs on the 401, then the request
\* interceptor runs on the config it marked, which is transmitted again
Resubmit(id) ==
    /\ id \in DOMAIN requests
    /\ requests[id].client = "api"
    /\ LET outcome == Response(HTTP_UNAUTHORIZED)
           error == [config |-> requests[id], response |-> outcome]
           r == responseRejected(localStorage, error)
       IN /\ requests' = [requests EXCEPT
                             ![id] = requestInterceptor(r.store, r.settled.value.config)]
                         \o r.calls
          /\ localStorage' = r.store
          /\ href' = IF r.redirect = <<>> THEN href ELSE r.redirect[1]
          /\ unloading' = (unloading \/ r.redirect /= <<>>)
          /\ ev' = [op |-> "response", outcome |-> outcome, sent |-> requests[id],
                    before |-> localStorage, hrefBefore |-> href,
                    inFlightBefore |-> Len(requests), clearedBefore |-> cleared,
                    settled |-> r.settled, redirect |-> r.redirect]
          /\ cleared' = IF r.redirect /= <<>> \/ r.store /= localStorage
                        THEN "401" ELSE cleared
    /\ UNCHANGED <<user, token, isLoading>>

----------------------------------------------------------------------------
(* Views that reach the backend without `api` *)

\* StudentHomePage: the mount effect calls fetchFeaturedRooms unless the
\* user is a non-student; it uses fetch with the absolute url
fetchFeaturedRooms ==
    /\ user.t = "object" => user.o.role = String(<<"student">>)
    /\ Len(requests) < MaxRequests
    /\ requests' = Append(requests,
          [client |-> "fetch", url |-> <<"/rooms/", "?is_available=true">>,
           headers |-> <<>>, _retry |-> FALSE])
    /\ ev' = [op |-> "direct", client |-> "fetch"]
    /\ UNCHANGED <<localStorage, user, token, isLoading, href, unloading, cleared>>

\* ProviderRegisterPage.handleSubmit: axios.post on the default axios
\* instance, which has no interceptors
providerRegister ==
    /\ ~isLoading
    /\ Len(requests) < MaxRequests
    /\ requests' = Append(requests,
          [client |-> "axios", url |-> <<"/register/", "provider/">>,
           headers |-> [h \in {"Content-Type"} |-> <<"application/json">>],
           _retry |-> FALSE])
    /\ ev' = [op |-> "direct", client |-> "axios"]
    /\ UNCHANGED <<localStorage, user, token, isLoading, href, unloading, cleared>>

\* the answer to a call made without `api`: no interceptor runs.  fetch
\* fulfils with any response and rejects when there is none; axios fulfils
\* with a 2xx response and rejects otherwise
DirectRespond(id, outcome) ==
    /\ id \in DOMAIN requests
    /\ requests[id].client /= "api"
    /\ requests' = Without(requests, id)
    /\ ev' = [op |-> "direct-response", outcome |-> outcome, sent |-> requests[id],
              settled |->
                 IF \/ requests[id].client = "fetch" /\ outcome.t = "response"
                    \/ requests[id].client = "axios" /\ Resolves(outcome)
                 THEN [state |-> "fulfilled", value |-> outcome]
                 ELSE [state |-> "rejected",
                       value |-> [config |-> requests[id], response |-> outcome]]]
    /\ UNCHANGED <<localStorage, user, token, isLoading, href, unloading, cleared>>

----------------------------------------------------------------------------
(* Pages *)

\* a route whose element keeps no state that matters here (LandingPage,
\* LoginPage, StudentDashboard)
NoView == [page |-> [element |-> "other"], awaiting |-> <<>>]

\* user?.role
RoleOf(u) == IF u.t = "object" /\ "role" \in DOMAIN u.o THEN u.o.role ELSE undefined

NaN == [t |-> "NaN"]

\* the number a run of decimal lexemes denotes, after the value acc
RECURSIVE LeadingDigits(_, _)
LeadingDigits(text, acc) ==
    IF text /= <<>> /\ IsNumberLexeme(Head(text))
    THEN LeadingDigits(Tail(text), 10 * acc + NumberOf(Head(text)))
    ELSE acc

\* parseInt: the leading decimal digits of the text, NaN where there are none
parseInt(text) ==
    IF text /= <<>> /\ IsNumberLexeme(Head(text))
    THEN Number(LeadingDigits(text, 0)) ELSE NaN

\* a || b
OrElse(a, b) == IF Truthy(a) THEN a ELSE b

\* the React state a page has before its effects have run
NeverRan == [t |-> "never"]

\* the closures of the calls in flight, once the component that made them is
\* unmounted: their setState calls do nothing any more
Unmounted(awaiting) ==
    [i \in DOMAIN awaiting |-> [awaiting[i] EXCEPT !.mounted = FALSE]]

\* the dependencies of the effect of the mounted page that may change: the
\* user, or none for useEffect(..., [])
Deps ==
    IF view.page.element \in {"ProviderDashboard", "BrowseRoomsPage"}
    THEN [t |-> "mount"] ELSE user

\* the effect of the mounted page has yet to run for its dependencies
\* (user): React runs the effects of a commit children first, and flushes
\* them before it handles an event or applies another update
EffectsPending == view.page.element /= "other" /\ view.page.ran /= Deps

\* the effect has run for the dependencies of this render
EffectRan(page) == [page EXCEPT !.ran = Deps]

\* the effect of AuthProvider runs after the effects of the page it wraps,
\* in the same flush: no response and no event is handled before it
RestoreAfterPage ==
    /\ ~EffectsPending
    /\ Restore
    /\ UNCHANGED view

\* how the promise of call id settles for outcome, with what the response
\* interceptor does to the store and the location on the way
Settle(id, outcome) ==
    IF Resolves(outcome)
    THEN [store |-> localStorage, redirect |-> <<>>, calls |-> <<>>,
          settled |-> responseFulfilled(outcome)]
    ELSE responseRejected(localStorage, [config |-> requests[id], response |-> outcome])

\* the response to a call a page made: the response interceptor runs, then
\* the function that awaited the call runs on: done is the React state it
\* sets (in the component, if that is still mounted), assigned the url it
\* assigns to window.location.href, if any
PageRespond(id, outcome, done, assigned) ==
    /\ id \in DOMAIN requests
    /\ ~isLoading
    /\ ~EffectsPending
    /\ LET r == Settle(id, outcome)
           closure == view.awaiting[id]
           location == IF assigned /= <<>> THEN assigned ELSE r.redirect
       IN /\ requests' = Without(requests, id)
          /\ localStorage' = r.store
          /\ href' = IF location = <<>> THEN href ELSE location[1]
          /\ unloading' = (unloading \/ location /= <<>>)
          /\ view' = [page |-> IF closure.mounted
                               THEN done
                               ELSE view.page,
                      awaiting |-> Without(view.awaiting, id)]
          /\ ev' = [op |-> "response", outcome |-> outcome, sent |-> requests[id],
                    before |-> localStorage, hrefBefore |-> href,
                    inFlightBefore |-> Len(requests), clearedBefore |-> cleared,
                    settled |-> r.settled, redirect |-> r.redirect,
                    closure |-> closure, pageBefore |-> view.page]
          /\ cleared' = IF r.redirect /= <<>> \/ r.store /= localStorage
                        THEN "401" ELSE cleared
    /\ UNCHANGED <<user, token, isLoading>>

\* a route change inside the document (a Link, the history): the Router
\* unmounts the page and mounts the element of path in its initial state
Open(path, mounted) ==
    /\ ~EffectsPending
    /\ Navigate(path)
    /\ view' = [page |-> mounted, awaiting |-> Unmounted(view.awaiting)]

\* a document load on an application path
Load(mounted) ==
    /\ ~EffectsPending
    /\ Reload
    /\ view' = [page |-> mounted, awaiting |-> <<>>]

----------------------------------------------------------------------------
(* PaymentPage, PaymentSuccessPage *)

Approved == String(<<"approved">>)
BookingStatuses == {Approved, String(<<"pending">>)}
BookingIds == {1, 2}
Booking(id, status) == [id |-> Number(id), booking_status |-> status]

\* what GET /bookings/my/ may return: the bookings of the student
BookingLists ==
    {<<>>} \cup {<<Booking(1, s)>> : s \in BookingStatuses}
           \cup {<<Booking(2, Approved), Booking(1, s)>> : s \in BookingStatuses}

CheckoutUrl == "https://checkout.paystack.com/x"

\* routes of App and the parameters the Router hands to their elements
PaymentPaths ==
    {"/payment/1", "/payment/x", "/payment-success",
     "/payment-success?reference=r1", "/payment-success?trxref=r1"}

useParams(path) ==
    CASE path = "/payment/1" -> [bookingId |-> <<"1">>]
      [] path = "/payment/x" -> [bookingId |-> <<"x">>]
      [] OTHER -> <<>>

useSearchParams(path) ==
    CASE path = "/payment-success?reference=r1" -> [reference |-> <<"r1">>]
      [] path = "/payment-success?trxref=r1" -> [trxref |-> <<"r1">>]
      [] OTHER -> <<>>

\* the component the Router mounts for path, in its initial React state
MountedPayment(path) ==
    IF path \in {"/payment/1", "/payment/x"}
    THEN [element |-> "PaymentPage", bookingId |-> useParams(path).bookingId,
          booking |-> null, isLoading |-> TRUE, isProcessing |-> FALSE,
          error |-> <<>>, ran |-> NeverRan]
    ELSE IF path \in PaymentPaths
    THEN [element |-> "PaymentSuccessPage", searchParams |-> useSearchParams(path),
          status |-> "loading", message |-> <<>>, timer |-> FALSE,
          ran |-> NeverRan]
    ELSE NoView.page

\* if (user?.role !== 'student') of both payment pages
studentGuard(u) == RoleOf(u) /= String(<<"student">>)

\* PaymentSuccessPage: the effect, with checkPaymentStatus up to its await
PaymentSuccessEffect ==
    /\ view.page.element = "PaymentSuccessPage"
    /\ EffectsPending
    /\ IF studentGuard(user)
       THEN /\ href' = "/"
            /\ view' = [page |-> NoView.page, awaiting |-> Unmounted(view.awaiting)]
            /\ ev' = [op |-> "guard", element |-> view.page.element,
                      store |-> localStorage, loading |-> isLoading]
       ELSE LET reference == getItem(view.page.searchParams, "reference")
                trxref == getItem(view.page.searchParams, "trxref")
                paymentRef == OrElse(reference, trxref)
            IN /\ href' = href
               /\ IF ~Truthy(paymentRef)
                  THEN view' = [view EXCEPT !.page.ran = Deps,
                                            !.page.status = "failed",
                                            !.page.message = <<"Payment reference not found">>]
                  ELSE view' = [view EXCEPT !.page.ran = Deps, !.page.timer = TRUE]
               /\ ev' = [op |-> "effect", element |-> view.page.element]
    /\ UNCHANGED <<localStorage, user, token, isLoading, unloading, requests, cleared>>

\* checkPaymentStatus after its await: the 3 s timer has fired
checkPaymentStatusDone ==
    /\ view.page.element = "PaymentSuccessPage"
    /\ ~isLoading
    /\ ~EffectsPending
    /\ view.page.timer
    /\ view' = [view EXCEPT !.page.timer = FALSE,
                            !.page.status = "success",
                            !.page.message = <<"Your booking has been confirmed">>]
    /\ ev' = [op |-> "timer", element |-> view.page.element]
    /\ UNCHANGED <<localStorage, user, token, isLoading, href, unloading, requests,
                   cleared>>

\* fetchBookingDetails after its await, for the fulfilled or rejected call
\* that accepts any booking with the id of the route
fetchBookingDetailsDone_anyStatus(page, closure, settled) ==
    IF settled.state = "fulfilled"
    THEN LET data == settled.value.data.a
             found == {i \in DOMAIN data : data[i].id = parseInt(closure.bookingId)}
         IN IF found = {}
            THEN [page EXCEPT !.error = <<"Booking not found">>, !.isLoading = FALSE]
            ELSE [page EXCEPT !.booking = Object(data[CHOOSE i \in found :
                                                     \A j \in found : i <= j]),
                              !.isLoading = FALSE]
    ELSE [page EXCEPT !.error = <<"Failed to load booking details">>,
                      !.isLoading = FALSE]

\* fetchBookingDetails after its await, for the fulfilled or rejected call
fetchBookingDetailsDone(page, closure, settled) ==
    IF settled.state = "fulfilled"
    THEN LET data == settled.value.data.a
             found == {i \in DOMAIN data : data[i].id = parseInt(closure.bookingId)}
         IN IF found = {}
            THEN [page EXCEPT !.error = <<"Booking not found">>, !.isLoading = FALSE]
            ELSE LET booking == data[CHOOSE i \in found : \A j \in found : i <= j]
                 IN IF booking.booking_status /= Approved
                    THEN [page EXCEPT !.error = <<"This booking is ">>
                                                 \o booking.booking_status.s,
                                      !.isLoading = FALSE]
                    ELSE [page EXCEPT !.booking = Object(booking), !.isLoading = FALSE]
    ELSE [page EXCEPT !.error = <<"Failed to load booking details">>,
                      !.isLoading = FALSE]

\* PaymentPage: the effect, with fetchBookingDetails up to its await
PaymentEffect ==
    /\ view.page.element = "PaymentPage"
    /\ EffectsPending
    /\ IF studentGuard(user)
       THEN /\ href' = "/"
            /\ view' = [page |-> NoView.page, awaiting |-> Unmounted(view.awaiting)]
            /\ requests' = requests
            /\ ev' = [op |-> "guard", element |-> view.page.element,
                      store |-> localStorage, loading |-> isLoading]
       ELSE /\ Len(requests) < MaxRequests
            /\ href' = href
            /\ requests' = Append(requests,
                  requestInterceptor(localStorage, newConfig(<<"/bookings/my/">>)))
            /\ view' = [page |-> [EffectRan(view.page) EXCEPT !.isLoading = TRUE],
                        awaiting |-> Append(view.awaiting,
                            [kind |-> "fetchBookingDetails", mounted |-> TRUE,
                             bookingId |-> view.page.bookingId])]
            /\ ev' = [op |-> "effect", element |-> view.page.element]
    /\ UNCHANGED <<localStorage, user, token, isLoading, unloading, cleared>>

\* PaymentPage.handlePayment up to its await; the button is rendered once
\* the page is neither loading nor showing an error and has a booking
handlePayment ==
    /\ view.page.element = "PaymentPage"
    /\ ~isLoading
    /\ ~EffectsPending
    /\ ~view.page.isLoading /\ view.page.error = <<>> /\ view.page.booking /= null
    /\ ~view.page.isProcessing
    /\ Len(requests) < MaxRequests
    /\ requests' = Append(requests,
          requestInterceptor(localStorage, newConfig(<<"/payments/initiate/">>))
              @@ [data |-> [booking_id |-> view.page.booking.o.id]])
    /\ view' = [page |-> [view.page EXCEPT !.isProcessing = TRUE, !.error = <<>>],
                awaiting |-> Append(view.awaiting,
                    [kind |-> "handlePayment", mounted |-> TRUE])]
    /\ ev' = [op |-> "handlePayment", booking |-> view.page.booking,
              bookingId |-> view.page.bookingId]
    /\ UNCHANGED <<localStorage, user, token, isLoading, href, unloading, cleared>>

\* handlePayment after its await: the React state it sets
handlePaymentDone(page, closure, settled) ==
    IF settled.state = "fulfilled"
    THEN [page EXCEPT !.isProcessing = FALSE]
    ELSE [page EXCEPT !.error = <<"Failed to initialize payment">>,
                      !.isProcessing = FALSE]

PaymentDone(page, closure, settled) ==
    IF closure.kind = "fetchBookingDetails"
    THEN fetchBookingDetailsDone(page, closure, settled)
    ELSE handlePaymentDone(page, closure, settled)

\* handlePayment after its await: window.location.href = authorization_url
PaymentLocation(closure, settled) ==
    IF closure.kind = "handlePayment" /\ settled.state = "fulfilled"
    THEN <<settled.value.data.o.authorization_url>> ELSE <<>>

\* what the backend may answer to the call made with config
PaymentOutcomes(config) ==
    {Response(HTTP_UNAUTHORIZED), Response(500), undefined}
    \cup IF config.url = <<"/bookings/my/">>
         THEN {Response(200) @@ [data |-> Array(l)] : l \in BookingLists}
         ELSE {Response(200) @@ [data |-> Object([authorization_url |-> CheckoutUrl])]}

PaymentRespond(id, outcome) ==
    /\ id \in DOMAIN requests
    /\ outcome \in PaymentOutcomes(requests[id])
    /\ PageRespond(id, outcome,
                   PaymentDone(view.page, view.awaiting[id], Settle(id, outcome).settled),
                   PaymentLocation(view.awaiting[id], Settle(id, outcome).settled))

----------------------------------------------------------------------------
(* CreateRoomPage, BookingRequestsPage, ProviderDashboard *)

Pending == String(<<"pending">>)
RoomIds == {1, 2}
Room(id, available) == [id |-> Number(id), is_available |-> available]

\* what GET /bookings/requests/ and GET /rooms/mine/ may return
RequestLists ==
    {<<>>, <<Booking(1, Pending)>>, <<Booking(1, Pending), Booking(2, Pending)>>}
RoomLists == {<<Room(1, TRUE), Room(2, FALSE)>>}
NewStatuses == {String(<<"approved">>), String(<<"rejected">>)}

ProviderPaths == {"/rooms/create", "/booking-requests", "/provider/dashboard"}

MountedProvider(path) ==
    CASE path = "/rooms/create" ->
           [element |-> "CreateRoomPage", facilities |-> <<>>, ran |-> NeverRan]
      [] path = "/booking-requests" ->
           [element |-> "BookingRequestsPage", bookings |-> <<>>, loading |-> TRUE,
            error |-> null, processingBookingId |-> null, ran |-> NeverRan]
      [] path = "/provider/dashboard" ->
           [element |-> "ProviderDashboard", summary |-> null, rooms |-> <<>>,
            loading |-> TRUE, error |-> null, all |-> <<>>, ran |-> NeverRan]
      [] OTHER -> NoView.page

\* if (user && user.role !== 'provider') of CreateRoomPage and
\* BookingRequestsPage
providerGuard(u) == Truthy(u) /\ RoleOf(u) /= String(<<"provider">>)

\* the effect of CreateRoomPage and of BookingRequestsPage, with
\* fetchFacilities / fetchBookingRequests up to the await
ProviderPageEffect ==
    /\ view.page.element \in {"CreateRoomPage", "BookingRequestsPage"}
    /\ EffectsPending
    /\ IF providerGuard(user)
       THEN /\ href' = "/"
            /\ view' = [page |-> NoView.page, awaiting |-> Unmounted(view.awaiting)]
            /\ requests' = requests
            /\ ev' = [op |-> "guard", element |-> view.page.element,
                      store |-> localStorage, loading |-> isLoading]
       ELSE LET fetch == IF view.page.element = "CreateRoomPage"
                         THEN [kind |-> "fetchFacilities", url |-> <<"/facilities/">>]
                         ELSE [kind |-> "fetchBookingRequests",
                               url |-> <<"/bookings/requests/">>]
            IN /\ Len(requests) < MaxRequests
               /\ href' = href
               /\ requests' = Append(requests,
                     requestInterceptor(localStorage, newConfig(fetch.url)))
               /\ view' = [page |-> EffectRan(view.page),
                           awaiting |-> Append(view.awaiting,
                               [kind |-> fetch.kind, mounted |-> TRUE])]
               /\ ev' = [op |-> "effect", element |-> view.page.element,
                         user |-> user, sent |-> requests'[Len(requests')]]
    /\ UNCHANGED <<localStorage, user, token, isLoading, unloading, cleared>>

\* fetchFacilities after its await
fetchFacilitiesDone(page, closure, settled) ==
    IF settled.state = "fulfilled"
    THEN [page EXCEPT !.facilities = settled.value.data.a]
    ELSE page

\* fetchBookingRequests after its await
fetchBookingRequestsDone(page, closure, settled) ==
    IF settled.state = "fulfilled"
    THEN [page EXCEPT !.bookings = settled.value.data.a, !.loading = FALSE]
    ELSE LET response == settled.value.response
         IN IF /\ response.t = "response" /\ response.status = 200
               /\ "data" \in DOMAIN response /\ "detail" \in DOMAIN response.data.o
            THEN [page EXCEPT !.bookings = <<>>, !.loading = FALSE]
            ELSE [page EXCEPT !.error = String(<<"Failed to load booking requests">>),
                              !.loading = FALSE]

\* the url `/bookings/${bookingId}/status/`
StatusUrl(bookingId) == <<"/bookings/", ToString(bookingId.n), "/status/">>

\* BookingRequestsPage.handleStatusUpdate up to its await, called by the
\* Approve or Reject button of a booking on display, which is disabled while
\* processingBookingId is the id of that booking
handleStatusUpdate(i, newStatus) ==
    /\ view.page.element = "BookingRequestsPage"
    /\ ~isLoading
    /\ ~EffectsPending
    /\ ~view.page.loading
    /\ i \in DOMAIN view.page.bookings
    /\ view.page.processingBookingId /= view.page.bookings[i].id
    /\ Len(requests) < MaxRequests
    /\ LET bookingId == view.page.bookings[i].id
       IN /\ requests' = Append(requests,
                requestInterceptor(localStorage, newConfig(StatusUrl(bookingId)))
                    @@ [data |-> [status |-> newStatus]])
          /\ view' = [page |-> [view.page EXCEPT !.processingBookingId = bookingId],
                      awaiting |-> Append(view.awaiting,
                          [kind |-> "handleStatusUpdate", mounted |-> TRUE,
                           bookingId |-> bookingId, newStatus |-> newStatus])]
          /\ ev' = [op |-> "handleStatusUpdate", bookingId |-> bookingId,
                    processingBefore |-> view.page.processingBookingId]
    /\ UNCHANGED <<localStorage, user, token, isLoading, href, unloading, cleared>>

\* handleStatusUpdate after its await
handleStatusUpdateDone(page, closure, settled) ==
    IF settled.state = "fulfilled"
    THEN [page EXCEPT !.bookings = SelectSeq(@, LAMBDA b : b.id /= closure.bookingId),
                      !.processingBookingId = null]
    ELSE [page EXCEPT !.processingBookingId = null]

\* ProviderDashboard: the effect, with fetchDashboardData up to the await of
\* Promise.all over its two calls
DashboardEffect ==
    /\ view.page.element = "ProviderDashboard"
    /\ EffectsPending
    /\ Len(requests) + 2 <= MaxRequests
    /\ requests' = requests
          \o << requestInterceptor(localStorage,
                                   newConfig(<<"/dashboard/provider/summary/">>)),
                requestInterceptor(localStorage, newConfig(<<"/rooms/mine/">>)) >>
    /\ view' = [page |-> EffectRan(view.page),
                awaiting |-> view.awaiting
                    \o << [kind |-> "fetchDashboardData", mounted |-> TRUE,
                           part |-> "summary"],
                          [kind |-> "fetchDashboardData", mounted |-> TRUE,
                           part |-> "rooms"] >>]
    /\ ev' = [op |-> "effect", element |-> view.page.element, user |-> user]
    /\ UNCHANGED <<localStorage, user, token, isLoading, href, unloading, cleared>>

\* fetchDashboardData after the await: Promise.all fulfils when both calls
\* have fulfilled and rejects with the first rejection; `all` holds what has
\* settled so far
fetchDashboardDataDone(page, closure, settled) ==
    IF "rejected" \in DOMAIN page.all THEN page
    ELSE IF settled.state = "rejected"
    THEN [page EXCEPT !.all = setItem(@, "rejected", settled.value),
                      !.error = String(<<"Failed to load dashboard data">>),
                      !.loading = FALSE]
    ELSE LET all == setItem(page.all, closure.part, settled.value.data)
         IN IF {"summary", "rooms"} \subseteq DOMAIN all
            THEN [page EXCEPT !.all = all, !.summary = all["summary"],
                              !.rooms = all["rooms"].a, !.loading = FALSE]
            ELSE [page EXCEPT !.all = all]

\* rooms.map(room => room.id === roomId ? {...room, is_available:
\* !room.is_available} : room)
Toggled(rooms, roomId) ==
    [i \in DOMAIN rooms |->
        IF rooms[i].id = roomId
        THEN [rooms[i] EXCEPT !.is_available = ~rooms[i].is_available]
        ELSE rooms[i]]

\* the url `/rooms/${roomId}/toggle-availability/`
ToggleUrl(roomId) == <<"/rooms/", ToString(roomId.n), "/toggle-availability/">>

\* ProviderDashboard.toggleRoomAvailability up to its await, called by the
\* button of a room on display; the function keeps the `rooms` of the render
\* it was created in
toggleRoomAvailability(i) ==
    /\ view.page.element = "ProviderDashboard"
    /\ ~isLoading
    /\ ~EffectsPending
    /\ ~view.page.loading
    /\ i \in DOMAIN view.page.rooms
    /\ Len(requests) < MaxRequests
    /\ LET roomId == view.page.rooms[i].id
       IN /\ requests' = Append(requests,
                requestInterceptor(localStorage, newConfig(ToggleUrl(roomId))))
          /\ view' = [view EXCEPT !.awaiting = Append(@,
                          [kind |-> "toggleRoomAvailability", mounted |-> TRUE,
                           roomId |-> roomId, rooms |-> view.page.rooms])]
          /\ ev' = [op |-> "toggleRoomAvailability", roomId |-> roomId]
    /\ UNCHANGED <<localStorage, user, token, isLoading, href, unloading, cleared>>

\* toggleRoomAvailability after its await: setRooms(rooms.map(...))
toggleRoomAvailabilityDone(page, closure, settled) ==
    IF settled.state = "fulfilled"
    THEN [page EXCEPT !.rooms = Toggled(closure.rooms, closure.roomId)]
    ELSE page

ProviderDone(page, closure, settled) ==
    CASE closure.kind = "fetchFacilities" -> fetchFacilitiesDone(page, closure, settled)
      [] closure.kind = "fetchBookingRequests" ->
           fetchBookingRequestsDone(page, closure, settled)
      [] closure.kind = "handleStatusUpdate" ->
           handleStatusUpdateDone(page, closure, settled)
      [] closure.kind = "fetchDashboardData" ->
           fetchDashboardDataDone(page, closure, settled)
      [] closure.kind = "toggleRoomAvailability" ->
           toggleRoomAvailabilityDone(page, closure, settled)

\* none of these functions assigns window.location.href
ProviderLocation(closure, settled) == <<>>

\* what the backend answers with status 200 to the call made with config
ProviderData(config) ==
    CASE config.url = <<"/facilities/">> -> {Array(<<>>)}
      [] config.url = <<"/bookings/requests/">> -> {Array(l) : l \in RequestLists}
      [] config.url = <<"/rooms/mine/">> -> {Array(l) : l \in RoomLists}
      [] OTHER -> {Object(<<>>)}

ProviderRespond(id, outcome) ==
    /\ id \in DOMAIN requests
    /\ PageRespond(id, outcome,
                   ProviderDone(view.page, view.awaiting[id], Settle(id, outcome).settled),
                   ProviderLocation(view.awaiting[id], Settle(id, outcome).settled))

----------------------------------------------------------------------------
(* BrowseRoomsPage *)

\* the names of the filters in the order fetchRooms appends them
FilterKeys == <<"price_min", "price_max", "location">>

\* what the visitor may type into the filter fields and the search field
FilterInputs == { [key |-> "price_min", value |-> <<"100">>] }
SearchInputs == { <<"knust">> }

\* useState({price_min: '', price_max: '', location: '', is_available: true})
NoFilters ==
    [price_min |-> String(<<>>), price_max |-> String(<<>>),
     location |-> String(<<>>), is_available |-> TRUE]

\* what GET /rooms/?... may return
SearchResults == {<<>>, <<Room(1, TRUE)>>}

MountedBrowse(path) ==
    IF path = "/rooms"
    THEN [element |-> "BrowseRoomsPage", rooms |-> <<>>, loading |-> TRUE,
          error |-> null, searchTerm |-> String(<<>>), filters |-> NoFilters,
          showFilters |-> FALSE, latestResult |-> null, ran |-> NeverRan]
    ELSE NoView.page

\* URLSearchParams.append for a value that is truthy
RECURSIVE AppendFilters(_, _)
AppendFilters(filters, keys) ==
    IF keys = <<>> THEN <<>>
    ELSE (IF Truthy(filters[Head(keys)])
          THEN <<[key |-> Head(keys), value |-> filters[Head(keys)].s]>> ELSE <<>>)
         \o AppendFilters(filters, Tail(keys))

\* URLSearchParams.toString(): key=value pairs joined by '&'
RECURSIVE ParamsToString(_)
ParamsToString(params) ==
    IF params = <<>> THEN <<>>
    ELSE <<Head(params).key, "=">> \o Head(params).value
         \o (IF Tail(params) = <<>> THEN <<>> ELSE <<"&">>)
         \o ParamsToString(Tail(params))

\* the url fetchRooms builds from the filters and the search term it sees
RoomsUrl(filters, searchTerm) ==
    LET params ==
            AppendFilters(filters, FilterKeys)
            \o (IF filters.is_available
                THEN <<[key |-> "is_available", value |-> <<"true">>]>> ELSE <<>>)
            \o (IF Truthy(searchTerm)
                THEN <<[key |-> "search", value |-> searchTerm.s]>> ELSE <<>>)
    IN <<"/rooms/", "?">> \o ParamsToString(params)

\* the closures of the earlier searches are no longer the latest
Superseded(awaiting) ==
    [i \in DOMAIN awaiting |->
        IF awaiting[i].kind = "fetchRooms"
        THEN [awaiting[i] EXCEPT !.latest = FALSE] ELSE awaiting[i]]

\* fetchRooms up to its await, called in a render whose state is page: the
\* function reads the filters and searchTerm of that render; set is the
\* state the caller has set before the call
fetchRooms(page, set) ==
    /\ Len(requests) < MaxRequests
    /\ requests' = Append(requests,
          requestInterceptor(localStorage,
                             newConfig(RoomsUrl(page.filters, page.searchTerm))))
    /\ view' = [page |-> [set EXCEPT !.latestResult = null],
                awaiting |-> Append(Superseded(view.awaiting),
                    [kind |-> "fetchRooms", mounted |-> TRUE, latest |-> TRUE,
                     url |-> RoomsUrl(page.filters, page.searchTerm)])]
    /\ UNCHANGED <<localStorage, user, token, isLoading, href, unloading, cleared>>

\* the effect of BrowseRoomsPage: useEffect(() => { fetchRooms() }, [])
BrowseEffect ==
    /\ view.page.element = "BrowseRoomsPage"
    /\ EffectsPending
    /\ fetchRooms(view.page, EffectRan(view.page))
    /\ ev' = [op |-> "effect", element |-> view.page.element, user |-> user]

\* onChange of the search field: setSearchTerm(e.target.value)
setSearchTerm(value) ==
    /\ view.page.element = "BrowseRoomsPage"
    /\ ~isLoading /\ ~EffectsPending
    /\ view.page.searchTerm /= String(value)
    /\ view' = [view EXCEPT !.page.searchTerm = String(value)]
    /\ ev' = [op |-> "setSearchTerm"]
    /\ UNCHANGED <<localStorage, user, token, isLoading, href, unloading, requests,
                   cleared>>

\* the Filters button: setShowFilters(!showFilters)
setShowFilters ==
    /\ view.page.element = "BrowseRoomsPage"
    /\ ~isLoading /\ ~EffectsPending
    /\ view' = [view EXCEPT !.page.showFilters = ~@]
    /\ ev' = [op |-> "setShowFilters"]
    /\ UNCHANGED <<localStorage, user, token, isLoading, href, unloading, requests,
                   cleared>>

\* onChange of a filter field, which the open filter panel renders
handleFilterChange(key, value) ==
    /\ view.page.element = "BrowseRoomsPage"
    /\ ~isLoading /\ ~EffectsPending
    /\ view.page.showFilters
    /\ view.page.filters[key] /= String(value)
    /\ view' = [view EXCEPT !.page.filters[key] = String(value)]
    /\ ev' = [op |-> "handleFilterChange"]
    /\ UNCHANGED <<localStorage, user, token, isLoading, href, unloading, requests,
                   cleared>>

\* the Search button, or Enter in the search field
handleSearch ==
    /\ view.page.element = "BrowseRoomsPage"
    /\ ~isLoading /\ ~EffectsPending
    /\ fetchRooms(view.page, [view.page EXCEPT !.loading = TRUE])
    /\ ev' = [op |-> "handleSearch", sent |-> requests'[Len(requests')]]

\* 'Clear Filters' of the open filter panel, or 'Show All Rooms' of the
\* empty result list
clearFilters ==
    /\ view.page.element = "BrowseRoomsPage"
    /\ ~isLoading /\ ~EffectsPending
    /\ \/ view.page.showFilters
       \/ ~view.page.loading /\ view.page.error = null /\ view.page.rooms = <<>>
    /\ fetchRooms(view.page, [view.page EXCEPT !.filters = NoFilters,
                                               !.searchTerm = String(<<>>),
                                               !.loading = TRUE])
    /\ ev' = [op |-> "clearFilters", sent |-> requests'[Len(requests')],
              filtersBefore |-> view.page.filters,
              searchTermBefore |-> view.page.searchTerm]

\* fetchRooms after its await
fetchRoomsDone(page, closure, settled) ==
    IF settled.state = "fulfilled"
    THEN [page EXCEPT !.rooms = settled.value.data.a, !.loading = FALSE]
    ELSE [page EXCEPT !.error = String(<<"Failed to load rooms">>),
                      !.loading = FALSE]

\* ... with how the latest search settled kept for the record
BrowseDone(page, closure, settled) ==
    LET done == fetchRoomsDone(page, closure, settled)
    IN IF closure.latest
       THEN [done EXCEPT !.latestResult = Object(settled @@ [url |-> closure.url])]
       ELSE done

BrowseLocation(closure, settled) == <<>>

BrowseRespond(id, outcome) ==
    /\ id \in DOMAIN requests
    /\ PageRespond(id, outcome,
                   BrowseDone(view.page, view.awaiting[id], Settle(id, outcome).settled),
                   BrowseLocation(view.awaiting[id], Settle(id, outcome).settled))

----------------------------------------------------------------------------
(* Specifications *)

Init ==
    /\ localStorage \in PersistedStores
    /\ user = null
    /\ token = null
    /\ isLoading = TRUE
    /\ href \in Paths
    /\ unloading = FALSE
    /\ requests = <<>>
    /\ ev = [op |-> "start"]
    /\ cleared = "no"
    /\ view = NoView

\* the pages rendered under Paths keep no state of their own here
Next ==
    \/ Restore /\ UNCHANGED view
    \/ \E u \in Users, a \in AccessTokens, r \in RefreshTokens :
          login(u, a, r) /\ UNCHANGED view
    \/ logout /\ UNCHANGED view
    \/ Reload /\ UNCHANGED view
    \/ \E p \in Paths : Navigate(p) /\ UNCHANGED view
    \/ \E url \in Urls : Issue(url) /\ UNCHANGED view
    \/ \E id \in 1..MaxRequests, o \in Outcomes : Respond(id, o) /\ UNCHANGED view

\* the session and the pipeline
Spec == Init /\ [][Next]_vars

\* the session, the pipeline and the views that call the backend directly
NextViews ==
    \/ Next
    \/ fetchFeaturedRooms /\ UNCHANGED view
    \/ providerRegister /\ UNCHANGED view
    \/ \E id \in 1..MaxRequests, o \in Outcomes : DirectRespond(id, o) /\ UNCHANGED view

SpecViews == Init /\ [][NextViews]_vars

\* the first load of the application in a fresh origin
InitEmpty == Init /\ localStorage = <<>>
SpecEmpty == InitEmpty /\ [][Next]_vars

\* one document of a fresh origin, opened on the dashboard: logins and the
\* pipeline, driven by callers that retry a rejected call with its config
InitRetry == InitEmpty /\ href = "/student/dashboard"

NextRetry ==
    \/ Restore /\ UNCHANGED view
    \/ \E u \in Users, a \in AccessTokens, r \in RefreshTokens :
          login(u, a, r) /\ UNCHANGED view
    \/ \E url \in Urls : Issue(url) /\ UNCHANGED view
    \/ \E id \in 1..MaxRequests, o \in Outcomes : Respond(id, o) /\ UNCHANGED view
    \/ \E id \in 1..MaxRequests : Resubmit(id) /\ UNCHANGED view

SpecRetry == InitRetry /\ [][NextRetry]_vars

\* what login leaves in a fresh origin, or nothing
SessionStores ==
    {<<>>} \cup {loginStore(<<>>, u, String(<<"accessA">>), String(<<"refreshA">>)) :
                    u \in Users}

\* a document load on a payment path or on the dashboard, then the payment
\* pages as the student reaches them
InitPayment ==
    /\ localStorage \in SessionStores
    /\ user = null
    /\ token = null
    /\ isLoading = TRUE
    /\ href \in PaymentPaths \cup {"/student/dashboard"}
    /\ unloading = FALSE
    /\ requests = <<>>
    /\ ev = [op |-> "start"]
    /\ cleared = "no"
    /\ view = [page |-> MountedPayment(href), awaiting |-> <<>>]

NextPayment ==
    \/ RestoreAfterPage
    \/ PaymentSuccessEffect
    \/ checkPaymentStatusDone
    \/ PaymentEffect
    \/ handlePayment
    \/ \E id \in 1..MaxRequests, l \in BookingLists :
          PaymentRespond(id, Response(200) @@ [data |-> Array(l)])
    \/ \E id \in 1..MaxRequests, o \in (Outcomes \ {Response(200)}) \cup
                {Response(200) @@ [data |-> Object([authorization_url |-> CheckoutUrl])]} :
          PaymentRespond(id, o)
    \/ \E p \in PaymentPaths \cup {"/student/dashboard"} : Open(p, MountedPayment(p))
    \/ href \in PaymentPaths /\ Load(MountedPayment(href))

SpecPayment == InitPayment /\ [][NextPayment]_vars

\* a document load on a page of the provider, then these pages as the
\* provider (or anyone else) reaches them
InitProvider ==
    /\ localStorage \in SessionStores
    /\ user = null
    /\ token = null
    /\ isLoading = TRUE
    /\ href \in ProviderPaths
    /\ unloading = FALSE
    /\ requests = <<>>
    /\ ev = [op |-> "start"]
    /\ cleared = "no"
    /\ view = [page |-> MountedProvider(href), awaiting |-> <<>>]

NextProvider ==
    \/ RestoreAfterPage
    \/ ProviderPageEffect
    \/ DashboardEffect
    \/ \E i \in 1..2, s \in NewStatuses : handleStatusUpdate(i, s)
    \/ \E i \in 1..2 : toggleRoomAvailability(i)
    \/ \E id \in DOMAIN requests :
          \/ \E data \in ProviderData(requests[id]) :
                ProviderRespond(id, Response(200) @@ [data |-> data])
          \/ \E o \in Outcomes \ {Response(200)} : ProviderRespond(id, o)
    \/ \E p \in ProviderPaths : Open(p, MountedProvider(p))
    \/ href \in ProviderPaths /\ Load(MountedProvider(href))

SpecProvider == InitProvider /\ [][NextProvider]_vars

\* a document load on '/rooms' by a visitor or a student, then the page in
\* use
InitBrowse ==
    /\ localStorage \in {s \in SessionStores : ~providerGuard(restoreSession(s).user)}
    /\ user = null
    /\ token = null
    /\ isLoading = TRUE
    /\ href = "/rooms"
    /\ unloading = FALSE
    /\ requests = <<>>
    /\ ev = [op |-> "start"]
    /\ cleared = "no"
    /\ view = [page |-> MountedBrowse(href), awaiting |-> <<>>]

NextBrowse ==
    \/ RestoreAfterPage
    \/ BrowseEffect
    \/ \E value \in SearchInputs : setSearchTerm(value)
    \/ setShowFilters
    \/ \E input \in FilterInputs : handleFilterChange(input.key, input.value)
    \/ handleSearch
    \/ clearFilters
    \/ \E id \in 1..MaxRequests, l \in SearchResults :
          BrowseRespond(id, Response(200) @@ [data |-> Array(l)])
    \/ \E id \in 1..MaxRequests, o \in {Response(500), undefined} : BrowseRespond(id, o)
    \/ Load(MountedBrowse(href))

SpecBrowse == InitBrowse /\ [][NextBrowse]_vars

----------------------------------------------------------------------------
(* Properties *)

StoredKeys == Keys \cap DOMAIN localStorage
HasText(s, k) == k \in DOMAIN s /\ s[k] /= <<>>
IsBootstrap(url) == includes(url, "/register/") \/ includes(url, "/login/")
Is401 == ev.op = "response" /\ ev.outcome = Response(HTTP_UNAUTHORIZED)

\* C1: from any session state, after login(u, a, r) the store holds exactly
\* user = serialized u, access_token = a, refresh_token = r, and the
\* context reports user = u and token = a.
C1_LoginPersists ==
    ev.op = "login" =>
        /\ localStorage = [user |-> JSONstringify(ev.userData),
                           access_token |-> ev.accessToken.s,
                           refresh_token |-> ev.refreshToken.s]
        /\ user = ev.userData
        /\ token = ev.accessToken

\* a login made while another session was active
C1_Witness == ev.op = "login" /\ ev.from = "Authenticated"

\* C2: after logout() none of the three keys remains in the store, and the
\* restoration of the next document load yields Anonymous.
C2_LogoutClears ==
    /\ ev.op = "logout" => StoredKeys = {}
    /\ (ev.op = "restore" /\ ev.after.op = "logout") =>
           user = null /\ token = null /\ StoredKeys = {}

\* the restoration that follows the logout of an authenticated session
C2_Witness ==
    ev.op = "restore" /\ ev.after.op = "logout" /\ ev.after.from = "Authenticated"

\* C3: round trip: the restoration at the document load that follows
\* login(u, a, r) yields user = u and token = a and leaves the three
\* entries as login wrote them.
C3_RoundTrip ==
    (ev.op = "restore" /\ ev.after.op = "login") =>
        /\ user = ev.after.userData
        /\ token = ev.after.accessToken
        /\ localStorage = ev.before
        /\ localStorage = [user |-> JSONstringify(ev.after.userData),
                           access_token |-> ev.after.accessToken.s,
                           refresh_token |-> ev.after.refreshToken.s]

\* a session restored from what login wrote
C3_Witness ==
    ev.op = "restore" /\ ev.after.op = "login" /\ user \in Users /\ token \in AccessTokens

\* C4: for any (non-empty) user entry that fails to deserialize,
\* restoration yields Anonymous and removes all three keys, whether or not
\* the access-token and refresh-token entries are present.
C4_MalformedWipes ==
    (ev.op = "restore" /\ HasText(ev.before, "user")
                       /\ ~JSONparse(ev.before["user"]).ok) =>
        user = null /\ token = null /\ StoredKeys = {}

\* C5: in every reachable state the in-memory user is present if and only
\* if the in-memory token is present.
C5_UserIffToken == (user = null) <=> (token = null)

\* C6: starting from an empty store, the store holds all three keys or
\* none of them.
C6_AllOrNone == StoredKeys = {} \/ StoredKeys = Keys

\* a full store emptied by the 401 handling
C6_Witness == Is401 /\ Keys \subseteq DOMAIN ev.before /\ StoredKeys = {}

\* C7: a request whose url contains '/register/' or '/login/' carries no
\* Authorization header, whatever access token is in the store.
C7_NoAuthOnBootstrap ==
    \A i \in DOMAIN requests :
        IsBootstrap(requests[i].url) => "Authorization" \notin DOMAIN requests[i].headers

\* a bootstrap request issued while the store holds an access token
C7_Witness ==
    /\ ev.op = "request" /\ IsBootstrap(ev.url)
    /\ HasText(localStorage, "access_token")

\* C8: a non-bootstrap request carries an Authorization header if and only
\* if an access token (a non-empty access_token entry) is in the store when
\* the request phase runs, and the header is then 'Bearer ' followed by it.
C8_BearerIffToken ==
    (ev.op = "request" /\ ~IsBootstrap(ev.url)) =>
        LET sent == requests[Len(requests)]
        IN /\ sent.url = ev.url
           /\ "Authorization" \in DOMAIN sent.headers
                  <=> HasText(localStorage, "access_token")
           /\ "Authorization" \in DOMAIN sent.headers =>
                  sent.headers["Authorization"]
                      = <<"Bearer ">> \o localStorage["access_token"]

\* a non-bootstrap request sent with its bearer credential
C8_Witness ==
    /\ ev.op = "request" /\ ~IsBootstrap(ev.url)
    /\ "Authorization" \in DOMAIN requests[Len(requests)].headers

\* C9 as stated: a 401 for a non-bootstrap request not yet marked retried
\* leaves none of the three keys in the store and sets the location to
\* '/login'.
C9_Always401Redirects ==
    (Is401 /\ ~IsBootstrap(ev.sent.url) /\ ~ev.sent._retry) =>
        StoredKeys = {} /\ href = "/login"

\* C9 amended: ... and a refresh token is in the store when the response is
\* handled ...
C9_401WithRefreshRedirects ==
    (Is401 /\ ~IsBootstrap(ev.sent.url) /\ ~ev.sent._retry
           /\ HasText(ev.before, "refresh_token")) =>
        StoredKeys = {} /\ href = "/login"

\* a full store cleared, and a view other than the login view left, by the
\* 401 of a non-bootstrap request
C9_Witness ==
    /\ Is401 /\ ~IsBootstrap(ev.sent.url)
    /\ Keys \subseteq DOMAIN ev.before
    /\ ev.hrefBefore /= "/login"
    /\ href = "/login"

\* C10: a 401 for a request not yet marked retried, with a refresh token in
\* the store: the three keys are removed, the location is '/login', no
\* refresh call and no resend is made, and the original error is rejected
\* to the caller.
C10_NoRefreshFlow ==
    (Is401 /\ ~ev.sent._retry /\ HasText(ev.before, "refresh_token")) =>
        /\ StoredKeys = {}
        /\ href = "/login"
        /\ Len(requests) = ev.inFlightBefore - 1
        /\ ev.settled.state = "rejected"
        /\ ev.settled.value.response = ev.outcome
        /\ ev.settled.value.config.url = ev.sent.url
        /\ ev.settled.value.config.headers = ev.sent.headers

\* the 401 of a call made with a bearer credential, while another call is
\* in flight
C10_Witness ==
    /\ Is401 /\ HasText(ev.before, "refresh_token")
    /\ "Authorization" \in DOMAIN ev.sent.headers
    /\ ev.inFlightBefore = MaxRequests
    /\ ev.settled.state = "rejected"

\* C11: a 401 with no refresh token in the store changes nothing in the
\* store, performs no redirect, and rejects the original error to the
\* caller.
C11_NoRefreshNoAction ==
    (Is401 /\ ~HasText(ev.before, "refresh_token")) =>
        /\ localStorage = ev.before
        /\ ev.redirect = <<>>
        /\ href = ev.hrefBefore
        /\ ev.settled.state = "rejected"
        /\ ev.settled.value.response = ev.outcome
        /\ ev.settled.value.config.url = ev.sent.url
        /\ ev.settled.value.config.headers = ev.sent.headers

\* the 401 of a non-bootstrap call handled with no refresh token stored
C11_Witness ==
    /\ Is401 /\ ~IsBootstrap(ev.sent.url)
    /\ "refresh_token" \notin DOMAIN ev.before
    /\ ev.settled.state = "rejected"

\* C13: once the pipeline has handled a 401 by clearing the store (and
\* redirecting), the in-memory session reports no user and no token when
\* the rejected error reaches the calling view.
C13_401ClearsContext ==
    (Is401 /\ ev.redirect /= <<>> /\ ev.settled.state = "rejected") =>
        user = null /\ token = null

\* C14: for every response that is not a 401 the pipeline leaves the store
\* and the location unchanged, retries nothing, and hands the response or
\* the error to the caller unchanged.
C14_OthersPassThrough ==
    (ev.op = "response" /\ ev.outcome /= Response(HTTP_UNAUTHORIZED)) =>
        /\ localStorage = ev.before
        /\ href = ev.hrefBefore
        /\ ev.redirect = <<>>
        /\ Len(requests) = ev.inFlightBefore - 1
        /\ ev.settled =
              IF ev.outcome.t = "response" /\ ev.outcome.status = 200
              THEN [state |-> "fulfilled", value |-> ev.outcome]
              ELSE [state |-> "rejected",
                    value |-> [config |-> ev.sent, response |-> ev.outcome]]

\* a server error answered to a call while a full session is stored
C14_Witness ==
    /\ ev.op = "response" /\ ev.outcome = Response(500)
    /\ Keys \subseteq DOMAIN ev.before
    /\ ev.settled.state = "rejected"

\* C15: isLoading starts true, is false once the restoration of the
\* document load has run, whatever it found, and within that document no
\* later step (login, logout, a call, a response) makes it true again.
C15_LoadingOnce ==
    /\ isLoading = TRUE
    /\ [][ /\ ev'.op = "restore" => (isLoading /\ ~isLoading')
           /\ (~isLoading /\ ev'.op /= "reload") => ~isLoading' ]_vars

\* a restoration that hit a malformed user entry has finished
C15_Witness ==
    /\ ev.op = "restore" /\ ~isLoading
    /\ HasText(ev.before, "user") /\ ~JSONparse(ev.before["user"]).ok
    /\ HasText(ev.before, "access_token")

\* C16: logout() leaves no user and no token in memory and forces a
\* navigation to the root path '/', from whatever view it was called.
C16_LogoutToRoot ==
    ev.op = "logout" =>
        user = null /\ token = null /\ href = "/" /\ unloading

\* the logout of an authenticated session made from another view than '/'
C16_Witness ==
    ev.op = "logout" /\ ev.from = "Authenticated" /\ ev.hrefBefore /= "/"

\* C18: a partial store at startup (some but not all of the three keys,
\* each entry well-formed) is restored to Anonymous and wiped: no key
\* survives.
C18_PartialWiped ==
    (/\ ev.op = "restore"
     /\ Keys \cap DOMAIN ev.before /= {}
     /\ Keys \cap DOMAIN ev.before /= Keys
     /\ \A k \in DOMAIN ev.before : ev.before[k] /= <<>>
     /\ "user" \in DOMAIN ev.before =>
            ev.before["user"] \in {JSONstringify(u) : u \in Users}) =>
        user = null /\ token = null /\ StoredKeys = {}

\* C19: after logout(), or after the pipeline cleared the store on a 401,
\* a request issued before the next login carries no Authorization header.
C19_NoTokenAfterClear ==
    (ev.op = "request" /\ ev.cleared /= "no") =>
        "Authorization" \notin DOMAIN requests[Len(requests)].headers

\* a non-bootstrap request issued after the 401 handling emptied the store
C19_Witness ==
    ev.op = "request" /\ ev.cleared = "401" /\ ~IsBootstrap(ev.url)

\* C20: of several calls in flight that all fail with 401, with no login in
\* between, at most one clears the store and redirects: a 401 handled after
\* the 401 handling already emptied the store only rejects its error.
C20_OneClearPerSession ==
    (Is401 /\ ev.clearedBefore = "401") =>
        /\ ev.redirect = <<>>
        /\ localStorage = ev.before
        /\ ev.settled.state = "rejected"
        /\ ev.settled.value.response = ev.outcome

\* the 401 of a call that was sent with its credential before the 401 of
\* another call emptied the store
C20_Witness ==
    /\ Is401 /\ ev.clearedBefore = "401"
    /\ "Authorization" \in DOMAIN ev.sent.headers

\* C12: the first 401 of a request marks it retried, and a 401 for a
\* request already marked retried changes nothing in the store and
\* redirects nowhere, also when credentials were stored in between.
C12_HandledOnce ==
    /\ (Is401 /\ ~ev.sent._retry) => ev.settled.value.config._retry
    /\ (Is401 /\ ev.sent._retry) =>
           /\ localStorage = ev.before
           /\ ev.redirect = <<>>
           /\ href = ev.hrefBefore
           /\ ev.settled.state = "rejected"

\* the second 401 of a request, handled while a full session is stored
C12_Witness ==
    /\ Is401 /\ ev.sent._retry
    /\ ev.clearedBefore = "no"
    /\ Keys \subseteq DOMAIN ev.before

\* C17: every backend call of a view goes through `api`.
C17_AllCallsThroughApi ==
    \A i \in DOMAIN requests : requests[i].client = "api"

\* the bearer credential the request phase would attach for the store s
CredentialOf(s) ==
    IF HasText(s, "access_token") THEN <<"Bearer ">> \o s["access_token"] ELSE <<>>

\* the bearer credential a transmitted request carries, if any
CarriedBy(config) ==
    IF "Authorization" \in DOMAIN config.headers
    THEN config.headers["Authorization"] ELSE <<>>

\* C21: a 401 for a (non-bootstrap) request that was sent under earlier
\* credentials, or with none, leaves in the store the credentials a login
\* stored after that request was sent.
C21_LaterLoginSurvives ==
    (/\ Is401 /\ ~IsBootstrap(ev.sent.url)
     /\ HasText(ev.before, "access_token")
     /\ CarriedBy(ev.sent) /= CredentialOf(ev.before)) =>
        localStorage = ev.before

\* C22: a 401 for a bootstrap request (url containing '/register/' or
\* '/login/') leaves the store as it is and redirects nowhere, also when a
\* refresh token is in the store.
C22_Bootstrap401Ignored ==
    (Is401 /\ IsBootstrap(ev.sent.url)) =>
        localStorage = ev.before /\ ev.redirect = <<>> /\ href = ev.hrefBefore

\* the persisted session is the well-formed session of a student
StudentSession(s) ==
    /\ Keys \subseteq DOMAIN s
    /\ RoleOf(restoreSession(s).user) = String(<<"student">>)

\* C23: the student role guard of PaymentPage and PaymentSuccessPage never
\* redirects to '/' a user whose persisted session is a well-formed student
\* session: on a document load the guard does not act on the session that
\* is still unrestored.
C23_StudentNotTurnedAway ==
    ev.op = "guard" => ~StudentSession(ev.store)

\* the React state `booking` of PaymentPage, null on any other page
BookingOf(v) == IF v.page.element = "PaymentPage" THEN v.page.booking ELSE null

StatusOf(v) ==
    IF v.page.element = "PaymentSuccessPage" THEN v.page.status ELSE "none"

\* C26: PaymentSuccessPage comes to report 'success' only by the answer of
\* a backend call that checked the payment reference.
C26_SuccessIsVerified ==
    [][(StatusOf(view') = "success" /\ StatusOf(view) /= "success") =>
          ev'.op = "response"]_vars

\* C24: the effect of CreateRoomPage and of BookingRequestsPage goes on to
\* its backend request only for a provider: for any other user, and for no
\* user, it redirects to '/' instead.
C24_NonProviderTurnedAway ==
    (ev.op = "effect" /\ ev.element \in {"CreateRoomPage", "BookingRequestsPage"}) =>
        RoleOf(ev.user) = String(<<"provider">>)

\* the status updates of booking b that the mounted BookingRequestsPage has
\* in flight
UpdatesInFlight(b) ==
    {i \in DOMAIN view.awaiting :
        /\ view.awaiting[i].mounted
        /\ view.awaiting[i].kind = "handleStatusUpdate"
        /\ view.awaiting[i].bookingId = Number(b)}

\* C27: in BookingRequestsPage at most one status-update request per
\* booking is in flight at any time, also when updates of other bookings
\* start or finish in the meantime.
C27_OneUpdatePerBooking ==
    \A b \in BookingIds : Cardinality(UpdatesInFlight(b)) <= 1

\* C28: in ProviderDashboard the completion of a successful toggle of a room
\* flips the displayed is_available of that room and leaves the displayed
\* is_available of every other room as it was.
C28_TogglesCompose ==
    (/\ ev.op = "response"
     /\ ev.closure.kind = "toggleRoomAvailability" /\ ev.closure.mounted
     /\ ev.settled.state = "fulfilled") =>
        view.page.rooms = Toggled(ev.pageBefore.rooms, ev.closure.roomId)

\* the searches that the mounted BrowseRoomsPage has in flight
SearchesInFlight ==
    {i \in DOMAIN view.awaiting :
        view.awaiting[i].mounted /\ view.awaiting[i].kind = "fetchRooms"}

\* C29: in BrowseRoomsPage, once every search in flight has completed (the
\* last of them answering other criteria than the search issued last), the
\* room list on display is the response to the search issued last, where
\* that search succeeded, whatever order the responses arrived in.
C29_LatestSearchShown ==
    (/\ view.page.element = "BrowseRoomsPage"
     /\ SearchesInFlight = {}
     /\ view.page.latestResult /= null
     /\ view.page.latestResult.o.state = "fulfilled"
     /\ ev.op = "response" /\ ev.sent.url /= view.page.latestResult.o.url) =>
        view.page.rooms = view.page.latestResult.o.value.data.a

\* C30: the request clearFilters issues carries the cleared criteria: no
\* search, price_min, price_max or location parameter, only
\* is_available=true, whatever was set before.
C30_ClearedCriteriaSent ==
    ev.op = "clearFilters" =>
        ev.sent.url = <<"/rooms/", "?", "is_available", "=", "true">>

====
